---- MODULE Spec2Model ----
(***************************************************************************)
(* State-machine model of the QA subsystem: the HTTP API handlers of       *)
(* application.py, the CLI launcher main.py, the evaluation harness of     *)
(* dev/evaluation/main.py and the text utilities of                        *)
(* utils/data_handling_utils.py.                                           *)
(*                                                                         *)
(* The server, the launcher and the offline utilities are separate         *)
(* programs.  Each has its own variables, its own initial condition and    *)
(* its own specification; a specification leaves the variables of the      *)
(* other programs at their idle values.                                    *)
(***************************************************************************)
EXTENDS Integers, Sequences, FiniteSets, TLC

(***************************************************************************)
(* Bounds of the model.                                                    *)
(***************************************************************************)
MaxRequests == 2
MaxFiles == 2
MaxItems == 2
MaxArgs == 3
MaxArticles == 3
MaxQas == 3
MaxRecords == 2
MaxCtxs == 2
MaxTextLen == 3
MaxAnswers == 2
MaxTokens == 4
MaxK == 2
MaxListLen == 2
MaxDocs == 3
MaxWords == 3
MaxSeqLen == 2
MaxEvalDocs == 2

VARIABLES
    upload_dir,          \* the paths that exist under FILE_UPLOAD_PATH
    store,               \* documents held by the shared document store
    ds_recreate_index,   \* the store's recreate_index attribute
    pc,                  \* per request: position of its handler
    keep_files,          \* per request: the keep_files parameter
    recreate_index,      \* per request: the recreate_index parameter
    files,               \* per request: number of files in the payload
    file_paths,          \* per request: the handler's local list file_paths
    result               \* per request: the handler's local result

varsUpload == <<upload_dir, store, ds_recreate_index, pc, keep_files,
                recreate_index, files, file_paths, result>>

VARIABLES
    q_pc,               \* "idle", "returned" or "failed"
    q_endpoint,         \* the endpoint of the last request
    q_params,           \* the params handed to pipeline.run
    q_pipeline_result,  \* the mapping pipeline.run returned
    q_result            \* the mapping the handler returned

varsQuery == <<q_pc, q_endpoint, q_params, q_pipeline_result, q_result>>

VARIABLES
    cli_argv,       \* the command line after the program name
    cli_pc,         \* "start", "parsed" or "exit"
    cli_args,       \* the namespace parse_args returned
    launch_calls,   \* number of calls of launch()
    ingest_calls,   \* number of calls of ingest_data()
    help_printed,   \* parser.print_help() was called
    exit_code       \* the exit status of the process (-1 while it runs)

varsCli == <<cli_argv, cli_pc, cli_args, launch_calls, ingest_calls,
             help_printed, exit_code>>

VARIABLES
    sq_pc,          \* "start" or "done"
    sq_data,        \* the articles of the file, json.load(f)["data"]
    sq_ratio,       \* split_ratio, as a fraction
    sq_shuffled,    \* data after random.shuffle
    sq_counter,     \* the loop's counter when the loop is left
    sq_train_set,   \* the articles written to train_file.json
    sq_dev_set,     \* the articles written to dev_file.json
    sq_printed      \* the two counts the function prints

varsSquad == <<sq_pc, sq_data, sq_ratio, sq_shuffled, sq_counter,
               sq_train_set, sq_dev_set, sq_printed>>

VARIABLES
    dpr_pc,         \* "start", "done" or "raised"
    dpr_data,       \* the records of the DPR file
    dpr_pairs       \* the list the function returns

varsDpr == <<dpr_pc, dpr_data, dpr_pairs>>

VARIABLES
    pp_pc,          \* "start" or "done"
    pp_input,       \* result["answers"] as the function receives it
    pp_answers      \* result["answers"] as the function leaves it

varsPost == <<pp_pc, pp_input, pp_answers>>

VARIABLES
    jp_pc,          \* "start", "done" or "raised"
    jp_seq,         \* the tokens passed as seq
    jp_characters,  \* the characters passed as characters
    jp_out          \* the tokens the generator yielded, in order

varsJoin == <<jp_pc, jp_seq, jp_characters, jp_out>>

VARIABLES
    ev_pc,              \* "start", "indexed", "loop" or "returned"
    ev_retriever,       \* the class of the retriever
    ev_retriever_top_k, \* retriever.top_k
    ev_top_k,           \* the top_k argument, 0 for None
    ev_top_k_list,      \* the top_k_list argument
    ev_indices,         \* the document store: what each index holds
    ev_i,               \* position of the loop in top_k_list
    ev_reports,         \* the local reports
    ev_report           \* the report returned when top_k_list is None

varsEval == <<ev_pc, ev_retriever, ev_retriever_top_k, ev_top_k, ev_top_k_list,
              ev_indices, ev_i, ev_reports, ev_report>>

VARIABLES
    st_pc,              \* "start" or "done"
    st_input,           \* docs as the caller passed it
    st_max_seq_len,     \* the max_seq_len argument
    st_docs,            \* the list docs as the function leaves it
    st_idx_to_splitted, \* idx_to_splitted_docs
    st_t_docs,          \* the list the function returns
    st_unavailable      \* some translate_docs call fell back to ['<ukn>']

varsTranslate == <<st_pc, st_input, st_max_seq_len, st_docs, st_idx_to_splitted,
                   st_t_docs, st_unavailable>>

VARIABLES
    ex_pc,              \* the call run_experiment is about to make, "returned" or "raised"
    ex_eval_file,       \* the evaluation file: readable or not, and its documents
    ex_yaml,            \* names of the pipelines the YAML file defines
    ex_temp_dir,        \* temp_dir: its state and the files in it
    ex_eval_ds,         \* documents in eval_ds
    ex_file_paths,      \* file_paths
    ex_pipelines,       \* the pipelines loaded so far
    ex_runs,            \* evaluation runs executed
    ex_raised_at        \* the call that raised, "none" if none did

varsExp == <<ex_pc, ex_eval_file, ex_yaml, ex_temp_dir, ex_eval_ds, ex_file_paths,
             ex_pipelines, ex_runs, ex_raised_at>>

othersUpload == <<varsQuery, varsCli, varsSquad, varsDpr, varsPost, varsJoin,
    varsEval, varsTranslate, varsExp>>
othersQuery == <<varsUpload, varsCli, varsSquad, varsDpr, varsPost, varsJoin,
    varsEval, varsTranslate, varsExp>>
othersCli == <<varsUpload, varsQuery, varsSquad, varsDpr, varsPost, varsJoin,
    varsEval, varsTranslate, varsExp>>
othersSquad == <<varsUpload, varsQuery, varsCli, varsDpr, varsPost, varsJoin,
    varsEval, varsTranslate, varsExp>>
othersDpr == <<varsUpload, varsQuery, varsCli, varsSquad, varsPost, varsJoin,
    varsEval, varsTranslate, varsExp>>
othersPost == <<varsUpload, varsQuery, varsCli, varsSquad, varsDpr, varsJoin,
    varsEval, varsTranslate, varsExp>>
othersJoin == <<varsUpload, varsQuery, varsCli, varsSquad, varsDpr, varsPost,
    varsEval, varsTranslate, varsExp>>
othersEval == <<varsUpload, varsQuery, varsCli, varsSquad, varsDpr, varsPost,
    varsJoin, varsTranslate, varsExp>>
othersTranslate == <<varsUpload, varsQuery, varsCli, varsSquad, varsDpr,
    varsPost, varsJoin, varsEval, varsExp>>
othersExp == <<varsUpload, varsQuery, varsCli, varsSquad, varsDpr, varsPost,
    varsJoin, varsEval, varsTranslate>>

(***************************************************************************)
(* Generic helpers.                                                        *)
(***************************************************************************)
Range(s) == {s[i] : i \in 1..Len(s)}

(***************************************************************************)
(* application.py: upload_files                                            *)
(***************************************************************************)
Req == 1..MaxRequests

\* A path is Path(FILE_UPLOAD_PATH) / f"{uuid4().hex}_{filename}": the uuid
\* prefix makes every written path fresh, so a path is named by the request
\* and the position of the file in its payload.
PathOf(r, i) == <<r, i>>

\* Documents that are in the index before the server starts (bulk ingestion).
SeedDocs == {<<0, 1>>}

NoResult == [documents |-> {}, embedding |-> "none"]

InitUpload ==
    /\ upload_dir = {}
    /\ store \in {{}, SeedDocs}
    /\ ds_recreate_index = FALSE
    /\ pc = [r \in Req |-> "idle"]
    /\ keep_files = [r \in Req |-> FALSE]
    /\ recreate_index = [r \in Req |-> FALSE]
    /\ files = [r \in Req |-> 0]
    /\ file_paths = [r \in Req |-> <<>>]
    /\ result = [r \in Req |-> NoResult]

IdleUpload ==
    /\ upload_dir = {}
    /\ store = {}
    /\ ds_recreate_index = FALSE
    /\ pc = [r \in Req |-> "idle"]
    /\ keep_files = [r \in Req |-> FALSE]
    /\ recreate_index = [r \in Req |-> FALSE]
    /\ files = [r \in Req |-> 0]
    /\ file_paths = [r \in Req |-> <<>>]
    /\ result = [r \in Req |-> NoResult]

\* A request is in flight from its arrival until its handler returns or raises.
InFlight(r) == pc[r] \in {"write", "mark", "index", "cleanup"}
Finished(r) == pc[r] \in {"done", "failed"}

\* The request arrives: FastAPI binds files, keep_files and recreate_index
\* (both default False).  Requests are numbered in order of arrival.
Arrive(r, n, keep, recreate) ==
    /\ pc[r] = "idle"
    /\ \A q \in Req : q < r => pc[q] # "idle"
    /\ pc' = [pc EXCEPT ![r] = "write"]
    /\ files' = [files EXCEPT ![r] = n]
    /\ keep_files' = [keep_files EXCEPT ![r] = keep]
    /\ recreate_index' = [recreate_index EXCEPT ![r] = recreate]
    /\ UNCHANGED <<upload_dir, store, ds_recreate_index, file_paths, result>>
    /\ UNCHANGED othersUpload

Receive(r) ==
    \E n \in 1..MaxFiles, keep \in BOOLEAN, recreate \in BOOLEAN :
        Arrive(r, n, keep, recreate)

\* The same arrival on a server that handles one upload at a time.
ReceiveAlone(r) ==
    /\ \A q \in Req : ~InFlight(q)
    /\ Receive(r)

\* for file_to_upload in files: write the payload under a fresh path
WriteFiles(r) ==
    /\ pc[r] = "write"
    /\ file_paths' = [file_paths EXCEPT ![r] = [i \in 1..files[r] |-> PathOf(r, i)]]
    /\ upload_dir' = upload_dir \cup {PathOf(r, i) : i \in 1..files[r]}
    /\ pc' = [pc EXCEPT ![r] = "mark"]
    /\ UNCHANGED <<store, ds_recreate_index, keep_files, recreate_index, files, result>>
    /\ UNCHANGED othersUpload

\* if recreate_index: ds.recreate_index = True
MarkRecreate(r) ==
    /\ pc[r] = "mark"
    /\ ds_recreate_index' = IF recreate_index[r] THEN TRUE ELSE ds_recreate_index
    /\ pc' = [pc EXCEPT ![r] = "index"]
    /\ UNCHANGED <<upload_dir, store, keep_files, recreate_index, files,
                   file_paths, result>>
    /\ UNCHANGED othersUpload

\* The documents the conversion pipeline makes of a list of paths: one
\* passage document per file, named by the file it came from.
DocsOf(paths) == Range(paths)

\* The write stage of the indexing pipeline: with the store's recreate flag
\* set the existing index content is dropped first.
DocumentStoreWrite(st, flag, batch) == IF flag THEN batch ELSE st \cup batch

\* An indexing run whose write stage never looks at the store's recreate flag.
RunIndexingKeepsIndex(r) ==
    /\ pc[r] = "index"
    /\ store' = store \cup DocsOf(file_paths[r])
    /\ result' = [result EXCEPT ![r] =
                     [documents |-> DocsOf(file_paths[r]), embedding |-> "ndarray"]]
    /\ pc' = [pc EXCEPT ![r] = "cleanup"]
    /\ UNCHANGED <<upload_dir, ds_recreate_index, keep_files, recreate_index,
                   files, file_paths>>
    /\ UNCHANGED othersUpload

\* result = indexing_pipeline.run(file_paths=file_paths), returning normally
RunIndexing(r) ==
    /\ pc[r] = "index"
    /\ store' = DocumentStoreWrite(store, ds_recreate_index, DocsOf(file_paths[r]))
    /\ result' = [result EXCEPT ![r] =
                     [documents |-> DocsOf(file_paths[r]), embedding |-> "ndarray"]]
    /\ pc' = [pc EXCEPT ![r] = "cleanup"]
    /\ UNCHANGED <<upload_dir, ds_recreate_index, keep_files, recreate_index,
                   files, file_paths>>
    /\ UNCHANGED othersUpload

\* indexing_pipeline.run raises (a converter or the store fails): the handler
\* has no try/finally, the exception leaves upload_files at line 63.
RunIndexingRaises(r) ==
    /\ pc[r] = "index"
    /\ pc' = [pc EXCEPT ![r] = "failed"]
    /\ UNCHANGED <<upload_dir, store, ds_recreate_index, keep_files,
                   recreate_index, files, file_paths, result>>
    /\ UNCHANGED othersUpload

\* embeddings to lists; if not keep_files: unlink every path; return result
FinishUpload(r) ==
    /\ pc[r] = "cleanup"
    /\ result' = [result EXCEPT ![r].embedding = "list"]
    /\ upload_dir' = IF keep_files[r] THEN upload_dir
                     ELSE upload_dir \ Range(file_paths[r])
    /\ pc' = [pc EXCEPT ![r] = "done"]
    /\ UNCHANGED <<store, ds_recreate_index, keep_files, recreate_index,
                   files, file_paths>>
    /\ UNCHANGED othersUpload

HandlerStep(r) ==
    \/ WriteFiles(r)
    \/ MarkRecreate(r)
    \/ RunIndexing(r)
    \/ RunIndexingRaises(r)
    \/ FinishUpload(r)

\* Concurrent uploads: the handler is a plain def, run on the thread pool.
NextUpload == \E r \in Req : Receive(r) \/ HandlerStep(r)

\* Uploads one after the other.
NextUploadSeq == \E r \in Req : ReceiveAlone(r) \/ HandlerStep(r)

(***************************************************************************)
(* application.py: ask_retriever_reader_pipeline, ask_rag_pipeline         *)
(***************************************************************************)
\* A list of n items (answers or documents); the items are told apart by
\* their position.
ListOf(n) == [i \in 1..n |-> i]
Lists == {ListOf(n) : n \in 0..MaxItems}

\* Keys a pipeline result can carry.
ResultKeys == {"answers", "documents", "query"}

\* The mappings pipeline.run can return: any of the keys, each with a list.
PipelineResults(keys) == [keys -> Lists]

\* request.params is Optional[dict]: None, or a mapping of node parameters
\* (told apart here by the top_k it carries, 0 for an empty mapping).
NoneParams == [is_none |-> TRUE, top_k |-> 0]
RequestParams == {NoneParams} \cup {[is_none |-> FALSE, top_k |-> k] : k \in 0..1}

\* params = request.params or {}
ParamsOrEmpty(p) == IF p.is_none THEN [is_none |-> FALSE, top_k |-> 0] ELSE p

InitQuery ==
    /\ q_pc = "idle"
    /\ q_endpoint = "none"
    /\ q_params = NoneParams
    /\ q_pipeline_result = <<>>
    /\ q_result = <<>>

\* The mapping after a handler's backfill with the named key alone.
BackfillDocuments(res) ==
    [k \in DOMAIN res \cup {"documents"} |->
        IF k \in DOMAIN res THEN res[k] ELSE <<>>]

\* if "documents" not in result: result["documents"] = []
\* if "answers" not in result: result["answers"] = []
Backfill(res) ==
    [k \in DOMAIN res \cup {"documents", "answers"} |->
        IF k \in DOMAIN res THEN res[k] ELSE <<>>]

\* POST /extractive-query: the pipeline returns `res`, the handler backfills
\* it, logs and returns it.
AskRetrieverReaderPipeline ==
    \E p \in RequestParams, keys \in SUBSET ResultKeys :
      \E res \in PipelineResults(keys) :
        /\ q_endpoint' = "extractive-query"
        /\ q_params' = ParamsOrEmpty(p)
        /\ q_pipeline_result' = res
        /\ q_result' = Backfill(res)
        /\ q_pc' = "returned"
        /\ UNCHANGED othersQuery

\* POST /rag-query: the same steps against the RAG pipeline.
AskRagPipeline ==
    \E p \in RequestParams, keys \in SUBSET ResultKeys :
      \E res \in PipelineResults(keys) :
        /\ q_endpoint' = "rag-query"
        /\ q_params' = ParamsOrEmpty(p)
        /\ q_pipeline_result' = res
        /\ q_result' = Backfill(res)
        /\ q_pc' = "returned"
        /\ UNCHANGED othersQuery

\* pipeline.run raises: neither handler catches, the request fails.
AskRaises ==
    /\ \E e \in {"extractive-query", "rag-query"} : q_endpoint' = e
    /\ \E p \in RequestParams : q_params' = ParamsOrEmpty(p)
    /\ q_pipeline_result' = <<>>
    /\ q_result' = <<>>
    /\ q_pc' = "failed"
    /\ UNCHANGED othersQuery

NextQuery == AskRetrieverReaderPipeline \/ AskRagPipeline \/ AskRaises

(***************************************************************************)
(* main.py: the CLI launcher                                               *)
(***************************************************************************)
\* The tokens a command line is made of: the two flags, the --help that
\* argparse adds, and one that the parser does not know.
ArgTokens == {"--launch", "--ingest_data", "--help", "--bogus"}
KnownFlags == {"--launch", "--ingest_data"}

NoArgs == [launch |-> FALSE, ingest_data |-> FALSE]

InitCli ==
    /\ \E n \in 0..MaxArgs : cli_argv \in [1..n -> ArgTokens]
    /\ cli_pc = "start"
    /\ cli_args = NoArgs
    /\ launch_calls = 0
    /\ ingest_calls = 0
    /\ help_printed = FALSE
    /\ exit_code = -1

IdleCli ==
    /\ cli_argv = <<>>
    /\ cli_pc = "start"
    /\ cli_args = NoArgs
    /\ launch_calls = 0
    /\ ingest_calls = 0
    /\ help_printed = FALSE
    /\ exit_code = -1

\* Two store_true flags: each is True when its option occurs on the line.
ParseFlags(argv) ==
    [launch |-> "--launch" \in Range(argv),
     ingest_data |-> "--ingest_data" \in Range(argv)]

\* What parse_args does with the line: --help prints the help and exits
\* with status 0; otherwise an unrecognised argument is an error, status 2.
ParseStatus(argv) ==
    IF "--help" \in Range(argv) THEN "help"
    ELSE IF Range(argv) \subseteq KnownFlags THEN "ok"
    ELSE "error"

\* args = parser.parse_args()
ParseArgs ==
    /\ cli_pc = "start"
    /\ LET status == ParseStatus(cli_argv)
       IN  /\ cli_args' = IF status = "ok" THEN ParseFlags(cli_argv) ELSE cli_args
           /\ cli_pc' = IF status = "ok" THEN "parsed" ELSE "exit"
           /\ exit_code' = IF status = "ok" THEN exit_code
                           ELSE IF status = "help" THEN 0 ELSE 2
           /\ help_printed' = (status = "help")
    /\ UNCHANGED <<cli_argv, launch_calls, ingest_calls>>
    /\ UNCHANGED othersCli

\* The branch main() takes with both actions run when both flags are given.
BranchBoth(args) ==
    [launch |-> IF args.launch THEN 1 ELSE 0,
     ingest |-> IF args.ingest_data THEN 1 ELSE 0,
     help |-> ~args.launch /\ ~args.ingest_data]

\* if args.launch: launch() elif args.ingest_data: ingest_data()
\* else: parser.print_help()
Branch(args) ==
    IF args.launch THEN [launch |-> 1, ingest |-> 0, help |-> FALSE]
    ELSE IF args.ingest_data THEN [launch |-> 0, ingest |-> 1, help |-> FALSE]
    ELSE [launch |-> 0, ingest |-> 0, help |-> TRUE]

\* The rest of main(): the chosen action runs its subprocess to the end,
\* then main() returns and the process exits with status 0.
Dispatch ==
    /\ cli_pc = "parsed"
    /\ launch_calls' = launch_calls + Branch(cli_args).launch
    /\ ingest_calls' = ingest_calls + Branch(cli_args).ingest
    /\ help_printed' = Branch(cli_args).help
    /\ exit_code' = 0
    /\ cli_pc' = "exit"
    /\ UNCHANGED <<cli_argv, cli_args>>
    /\ UNCHANGED othersCli

NextCli == ParseArgs \/ Dispatch

(***************************************************************************)
(* utils/data_handling_utils.py: split_squad_dataset                       *)
(***************************************************************************)
\* An article is told apart by its id and carries the number of qas of each
\* of its paragraphs.
ParagraphLists == {<<q>> : q \in 0..MaxQas} \cup {<<1, 1>>}

RECURSIVE Sum(_)
Sum(s) == IF s = <<>> THEN 0 ELSE Head(s) + Sum(Tail(s))

\* for paragraph in article["paragraphs"]: counter += len(paragraph["qas"])
QasOf(article) == Sum(article.paragraphs)

RECURSIVE CountQas(_)
\* SquadData(data).count(): the number of questions of the dataset.
CountQas(data) == IF data = <<>> THEN 0 ELSE QasOf(Head(data)) + CountQas(Tail(data))

\* The dataset whose article i has id i and the paragraphs ps[i].
DatasetWith(ps) == [i \in 1..Len(ps) |-> [id |-> i, paragraphs |-> ps[i]]]

\* split_ratio values: 0.1 (the default), 0.5 and 1.0.
Ratios == {[num |-> 1, den |-> 10], [num |-> 1, den |-> 2], [num |-> 1, den |-> 1]}

\* round(x) of a non-negative fraction num/den: Python rounds to the nearest
\* integer and a tie to the even one.
Round(num, den) ==
    LET q == num \div den
        r == num % den
    IN  IF 2 * r < den THEN q
        ELSE IF 2 * r > den THEN q + 1
        ELSE IF q % 2 = 0 THEN q ELSE q + 1

\* round(num_of_examples * split_ratio)
Threshold(n, ratio) == Round(n * ratio.num, ratio.den)

\* The orders random.shuffle can leave a list in.
ShuffledOrders(seq) ==
    {[i \in 1..Len(seq) |-> seq[f[i]]] :
        f \in {g \in [1..Len(seq) -> 1..Len(seq)] :
                  \A i, j \in 1..Len(seq) : g[i] = g[j] => i = j}}

InitSquad ==
    /\ sq_pc = "start"
    /\ \E n \in 0..MaxArticles : \E ps \in [1..n -> ParagraphLists] :
          sq_data = DatasetWith(ps)
    /\ sq_ratio \in Ratios
    /\ sq_shuffled = <<>>
    /\ sq_counter = 0
    /\ sq_train_set = <<>>
    /\ sq_dev_set = <<>>
    /\ sq_printed = [train |-> 0, dev |-> 0]

IdleSquad ==
    /\ sq_pc = "start"
    /\ sq_data = <<>>
    /\ sq_ratio = [num |-> 1, den |-> 10]
    /\ sq_shuffled = <<>>
    /\ sq_counter = 0
    /\ sq_train_set = <<>>
    /\ sq_dev_set = <<>>
    /\ sq_printed = [train |-> 0, dev |-> 0]

RECURSIVE SplitLoop(_, _, _, _, _)
\* for article in data: add its qas to counter; if counter >= threshold:
\* break, else: test_set.append(article)
SplitLoop(data, i, counter, test_set, threshold) ==
    IF i > Len(data) THEN [counter |-> counter, test_set |-> test_set]
    ELSE LET c == counter + QasOf(data[i])
         IN  IF c >= threshold
             THEN [counter |-> c, test_set |-> test_set]
             ELSE SplitLoop(data, i + 1, c, Append(test_set, data[i]), threshold)

\* The whole function: count, shuffle, loop, slice, print, write both files.
SplitSquadDataset ==
    /\ sq_pc = "start"
    /\ \E shuffled \in ShuffledOrders(sq_data) :
         LET n == CountQas(sq_data)
             out == SplitLoop(shuffled, 1, 0, <<>>, Threshold(n, sq_ratio))
         IN  /\ sq_shuffled' = shuffled
             /\ sq_counter' = out.counter
             /\ sq_dev_set' = out.test_set
             /\ sq_train_set' = SubSeq(shuffled, Len(out.test_set) + 1, Len(shuffled))
             /\ sq_printed' = [train |-> n - out.counter, dev |-> out.counter]
    /\ sq_pc' = "done"
    /\ UNCHANGED <<sq_data, sq_ratio>>
    /\ UNCHANGED othersSquad

NextSquad == SplitSquadDataset

(***************************************************************************)
(* utils/data_handling_utils.py: get_query_doc_pairs_from_dpr_file         *)
(***************************************************************************)
Questions == {"q1", "q2"}
CtxTexts == {"t1", "t2"}

\* A record: a question and the texts of its positive contexts, in order.
DprRecords ==
    {[question |-> q, positive_ctxs |-> c] :
        q \in Questions, c \in UNION {[1..k -> CtxTexts] : k \in 0..MaxCtxs}}

\* A local name that no assignment has bound yet.
Unbound == "<unbound>"

InitDpr ==
    /\ dpr_pc = "start"
    /\ \E n \in 0..MaxRecords : dpr_data \in [1..n -> DprRecords]
    /\ dpr_pairs = <<>>

IdleDpr ==
    /\ dpr_pc = "start"
    /\ dpr_data = <<>>
    /\ dpr_pairs = <<>>

\* for positive_ctx in d["positive_ctxs"]: document = positive_ctx["text"]
LastText(ctxs, document) == IF ctxs = <<>> THEN document ELSE ctxs[Len(ctxs)]

RECURSIVE DprLoop(_, _, _, _)
\* for d in data: question = d["question"]; the inner loop; nothing is
\* appended in the loop body.  Yields the locals as the loop leaves them.
DprLoop(data, i, question, document) ==
    IF i > Len(data) THEN [question |-> question, document |-> document]
    ELSE DprLoop(data, i + 1, data[i].question,
                 LastText(data[i].positive_ctxs, document))

\* The whole function.  The append stands after the outer loop: it reads
\* the locals once, and raises NameError when one of them was never bound.
GetQueryDocPairs ==
    /\ dpr_pc = "start"
    /\ LET locals == DprLoop(dpr_data, 1, Unbound, Unbound)
       IN  IF locals.question = Unbound \/ locals.document = Unbound
           THEN /\ dpr_pc' = "raised"
                /\ dpr_pairs' = <<>>
           ELSE /\ dpr_pc' = "done"
                /\ dpr_pairs' = <<locals>>
    /\ UNCHANGED dpr_data
    /\ UNCHANGED othersDpr

NextDpr == GetQueryDocPairs

(***************************************************************************)
(* utils/data_handling_utils.py: post_process_generator_answers,           *)
(* remove_incomplete_sentences                                             *)
(***************************************************************************)
\* A text is a sequence of characters.  NL is the line break.
NL == "\n"
Chars == {"a", ".", ";", "?", " ", NL}
Whitespace == {" ", NL}

\* The characters after which the sentence tokenizer can end a sentence.
SentenceEnders == {".", "?", "!"}

Texts == UNION {[1..n -> Chars] : n \in 0..MaxTextLen}

\* The list of answer objects with the given texts; an answer object is
\* told apart by its id.
AnswersWith(texts) == [i \in 1..Len(texts) |-> [id |-> i, answer |-> texts[i]]]

InitPost ==
    /\ pp_pc = "start"
    /\ \E n \in 0..MaxAnswers : \E texts \in [1..n -> Texts] :
          pp_input = AnswersWith(texts)
    /\ pp_answers = <<>>

IdlePost ==
    /\ pp_pc = "start"
    /\ pp_input = <<>>
    /\ pp_answers = <<>>

RECURSIVE LStrip(_)
LStrip(t) == IF t # <<>> /\ Head(t) \in Whitespace THEN LStrip(Tail(t)) ELSE t

RECURSIVE RStrip(_)
RStrip(t) ==
    IF t # <<>> /\ t[Len(t)] \in Whitespace THEN RStrip(SubSeq(t, 1, Len(t) - 1))
    ELSE t

\* str.strip()
Strip(t) == LStrip(RStrip(t))

RECURSIVE SentSlices(_, _, _, _)
\* The sentence slices of a text: a sentence ends after an ender that is
\* followed by white space and a further token, and the next sentence starts
\* at that token; the last slice ends where the right-stripped text ends.
\* `from` is where the current sentence starts, `i` the scan position.
SentSlices(t, from, i, out) ==
    IF i > Len(t)
    THEN LET last == RStrip(SubSeq(t, from, Len(t)))
         IN  IF last = <<>> THEN out ELSE Append(out, last)
    ELSE IF t[i] \in SentenceEnders /\ i < Len(t) /\ t[i + 1] \in Whitespace
              /\ LStrip(SubSeq(t, i + 1, Len(t))) # <<>>
    THEN LET rest == LStrip(SubSeq(t, i + 1, Len(t)))
             next == Len(t) - Len(rest) + 1
         IN  SentSlices(t, next, next, Append(out, SubSeq(t, from, i)))
    ELSE SentSlices(t, from, i + 1, out)

\* nltk.sent_tokenize(text)
SentTokenize(t) == SentSlices(t, 1, 1, <<>>)

\* sentence_end_regex.match(s) for r'.*[\.\;!]$': from the start of s, any
\* characters but line breaks, then one of . ; !, then the end of s or the
\* line break that ends s.
SentenceEndMatch(s) ==
    \E k \in 1..Len(s) :
        /\ \A j \in 1..(k - 1) : s[j] # NL
        /\ s[k] \in {".", ";", "!"}
        /\ \/ k = Len(s)
           \/ k = Len(s) - 1 /\ s[Len(s)] = NL

RECURSIVE JoinSpace(_)
\* ' '.join(parts)
JoinSpace(parts) ==
    IF parts = <<>> THEN <<>>
    ELSE IF Len(parts) = 1 THEN parts[1]
    ELSE parts[1] \o <<" ">> \o JoinSpace(Tail(parts))

KeepsSentence(sentence) == SentenceEndMatch(Strip(sentence))

\* remove_incomplete_sentences(text)
RemoveIncompleteSentences(t) == JoinSpace(SelectSeq(SentTokenize(t), KeepsSentence))

\* post_process_generator_answers(result): every answer object gets its
\* text replaced and is appended to the new list, which replaces the old.
PostProcessGeneratorAnswers ==
    /\ pp_pc = "start"
    /\ pp_answers' = [i \in 1..Len(pp_input) |->
                        [pp_input[i] EXCEPT !.answer = RemoveIncompleteSentences(@)]]
    /\ pp_pc' = "done"
    /\ UNCHANGED pp_input
    /\ UNCHANGED othersPost

NextPost == PostProcessGeneratorAnswers

(***************************************************************************)
(* utils/data_handling_utils.py: join_punctuation                          *)
(***************************************************************************)
\* A token is a sequence of characters.
Tokens == {<<"a">>, <<"b", "c">>, <<",">>, <<"!">>}
CharacterSets == SUBSET {",", "!"}

InitJoin ==
    /\ jp_pc = "start"
    /\ \E n \in 0..MaxTokens : jp_seq \in [1..n -> Tokens]
    /\ jp_characters \in CharacterSets
    /\ jp_out = <<>>

IdleJoin ==
    /\ jp_pc = "start"
    /\ jp_seq = <<>>
    /\ jp_characters = {}
    /\ jp_out = <<>>

\* nxt in characters: characters is a set of single characters, so a token
\* is in it when it is one character of the set.
InCharacters(token, characters) == Len(token) = 1 /\ token[1] \in characters

RECURSIVE JoinLoopNoLastYield(_, _, _, _)
\* The loop without the yield that follows it.
JoinLoopNoLastYield(rest, current, characters, out) ==
    IF rest = <<>> THEN out
    ELSE IF InCharacters(Head(rest), characters)
    THEN JoinLoopNoLastYield(Tail(rest), current \o Head(rest), characters, out)
    ELSE JoinLoopNoLastYield(Tail(rest), Head(rest), characters, Append(out, current))

RECURSIVE JoinLoop(_, _, _, _)
\* for nxt in seq: if nxt in characters: current += nxt
\* else: yield current; current = nxt
\* and after the loop: yield current
JoinLoop(rest, current, characters, out) ==
    IF rest = <<>> THEN Append(out, current)
    ELSE IF InCharacters(Head(rest), characters)
    THEN JoinLoop(Tail(rest), current \o Head(rest), characters, out)
    ELSE JoinLoop(Tail(rest), Head(rest), characters, Append(out, current))

\* The generator run to its end, list(join_punctuation(seq, characters)).
\* current = next(seq) on an empty seq raises StopIteration inside the
\* generator, which reaches the caller as RuntimeError.
JoinPunctuation ==
    /\ jp_pc = "start"
    /\ IF jp_seq = <<>>
       THEN /\ jp_pc' = "raised"
            /\ jp_out' = <<>>
       ELSE /\ jp_pc' = "done"
            /\ jp_out' = JoinLoop(Tail(jp_seq), Head(jp_seq), jp_characters, <<>>)
    /\ UNCHANGED <<jp_seq, jp_characters>>
    /\ UNCHANGED othersJoin

NextJoin == JoinPunctuation

(***************************************************************************)
(* dev/evaluation/main.py: index_eval_labels, evaluate_retriever           *)
(***************************************************************************)
RetrieverClasses == {"BM25Retriever", "EmbeddingRetriever", "DensePassageRetriever"}

\* The indices of the store: the two that index_eval_labels names and the
\* two the store was configured with (document_store.index, .label_index).
StoreIndex == "document"
StoreLabelIndex == "label"
IndexNames == {"eval_docs", "label_index", StoreIndex, StoreLabelIndex}

\* What an index holds: nothing ("absent"), what an earlier run left
\* ("old") or the evaluation file ("eval"); how often this call has loaded
\* the evaluation file into it; whether its embeddings were updated.
Absent == [content |-> "absent", loads |-> 0, embedded |-> FALSE]
Old == [content |-> "old", loads |-> 0, embedded |-> FALSE]

NoList == [is_none |-> TRUE, list |-> <<>>]
NoReport == [top_k |-> 0, doc_index |-> "none", label_index |-> "none",
             docs |-> Absent, labels |-> Absent]

InitEval ==
    /\ ev_pc = "start"
    /\ ev_retriever \in RetrieverClasses
    /\ ev_retriever_top_k \in 1..MaxK
    /\ ev_top_k \in 0..MaxK
    /\ \/ ev_top_k_list = NoList
       \/ \E n \in 0..MaxListLen : \E l \in [1..n -> 1..MaxK] :
             ev_top_k_list = [is_none |-> FALSE, list |-> l]
    /\ \E before \in {Absent, Old} :
          ev_indices = [n \in IndexNames |->
                           IF n \in {StoreIndex, StoreLabelIndex} THEN Old ELSE before]
    /\ ev_i = 1
    /\ ev_reports = <<>>
    /\ ev_report = NoReport

IdleEval ==
    /\ ev_pc = "start"
    /\ ev_retriever = "BM25Retriever"
    /\ ev_retriever_top_k = 1
    /\ ev_top_k = 0
    /\ ev_top_k_list = NoList
    /\ ev_indices = [n \in IndexNames |-> Absent]
    /\ ev_i = 1
    /\ ev_reports = <<>>
    /\ ev_report = NoReport

\* document_store.delete_index(index)
DeleteIndex(indices, name) == [indices EXCEPT ![name] = Absent]

\* document_store.add_eval_data(filename, doc_index, label_index, ...)
AddEvalData(indices, doc_index, label_index) ==
    [indices EXCEPT
        ![doc_index] = [content |-> "eval", loads |-> @.loads + 1, embedded |-> FALSE],
        ![label_index] = [content |-> "eval", loads |-> @.loads + 1, embedded |-> FALSE]]

\* index_eval_labels(document_store, eval_filename)
IndexEvalLabelsOf(indices) ==
    AddEvalData(DeleteIndex(DeleteIndex(indices, "eval_docs"), "label_index"),
                "eval_docs", "label_index")

\* retriever.eval(label_index, doc_index, top_k, document_store): the report
\* records the depth and what the two indices held when it was computed.
RetrieverEval(indices, label_index, doc_index, k) ==
    [top_k |-> k, doc_index |-> doc_index, label_index |-> label_index,
     docs |-> indices[doc_index], labels |-> indices[label_index]]

\* index_eval_labels(document_store, eval_filename), line 88
IndexEvalLabels ==
    /\ ev_pc = "start"
    /\ ev_indices' = IndexEvalLabelsOf(ev_indices)
    /\ ev_pc' = "indexed"
    /\ UNCHANGED <<ev_retriever, ev_retriever_top_k, ev_top_k, ev_top_k_list,
                   ev_i, ev_reports, ev_report>>
    /\ UNCHANGED othersEval

\* if isinstance(retriever, (EmbeddingRetriever, DensePassageRetriever)):
\*     document_store.update_embeddings(retriever, index="eval_docs")
\* and, with a top_k_list, reports = {}
UpdateEmbeddings ==
    /\ ev_pc = "indexed"
    /\ ev_indices' =
          IF ev_retriever \in {"EmbeddingRetriever", "DensePassageRetriever"}
          THEN [ev_indices EXCEPT !["eval_docs"].embedded = TRUE]
          ELSE ev_indices
    /\ ev_reports' = <<>>
    /\ ev_i' = 1
    /\ ev_pc' = "loop"
    /\ UNCHANGED <<ev_retriever, ev_retriever_top_k, ev_top_k, ev_top_k_list,
                   ev_report>>
    /\ UNCHANGED othersEval

\* The report of one depth, computed against the store's own indices.
DepthReportStoreIndices(indices, k) ==
    RetrieverEval(indices, StoreLabelIndex, StoreIndex, k)

\* retriever.eval(label_index="label_index", doc_index="eval_docs", top_k=k, ...)
DepthReport(indices, k) == RetrieverEval(indices, "label_index", "eval_docs", k)

\* One turn of: for k in tqdm(top_k_list): reports[k] = retriever.eval(...)
EvalDepth ==
    /\ ev_pc = "loop"
    /\ ~ev_top_k_list.is_none
    /\ ev_i <= Len(ev_top_k_list.list)
    /\ LET k == ev_top_k_list.list[ev_i]
       IN  ev_reports' = (k :> DepthReport(ev_indices, k)) @@ ev_reports
    /\ ev_i' = ev_i + 1
    /\ UNCHANGED <<ev_pc, ev_retriever, ev_retriever_top_k, ev_top_k,
                   ev_top_k_list, ev_indices, ev_report>>
    /\ UNCHANGED othersEval

\* return reports
ReturnReports ==
    /\ ev_pc = "loop"
    /\ ~ev_top_k_list.is_none
    /\ ev_i > Len(ev_top_k_list.list)
    /\ ev_pc' = "returned"
    /\ UNCHANGED <<ev_retriever, ev_retriever_top_k, ev_top_k, ev_top_k_list,
                   ev_indices, ev_i, ev_reports, ev_report>>
    /\ UNCHANGED othersEval

\* else: if top_k is None: top_k = retriever.top_k
\* report = retriever.eval(label_index=document_store.label_index,
\*                         doc_index=document_store.index, ...); return report
EvalSingle ==
    /\ ev_pc = "loop"
    /\ ev_top_k_list.is_none
    /\ LET k == IF ev_top_k = 0 THEN ev_retriever_top_k ELSE ev_top_k
       IN  ev_report' = RetrieverEval(ev_indices, StoreLabelIndex, StoreIndex, k)
    /\ ev_pc' = "returned"
    /\ UNCHANGED <<ev_retriever, ev_retriever_top_k, ev_top_k, ev_top_k_list,
                   ev_indices, ev_i, ev_reports>>
    /\ UNCHANGED othersEval

NextEval ==
    IndexEvalLabels \/ UpdateEmbeddings \/ EvalDepth \/ ReturnReports \/ EvalSingle

(***************************************************************************)
(* utils/data_handling_utils.py: translate_docs, split_and_translate       *)
(***************************************************************************)
\* A document is the sequence of its words between single spaces.  Word j
\* of the document passed at position i is the number 10 * i + j; its
\* translation is the negative of it.
DocAt(i, n) == [j \in 1..n |-> 10 * i + j]

\* The list whose document at position i has lens[i] words.
DocsWith(lens) == [i \in 1..Len(lens) |-> DocAt(i, lens[i])]

\* What the translator makes of one document.
Translation(doc) == [j \in 1..Len(doc) |-> 0 - doc[j]]

\* The document '<ukn>'.
Ukn == <<0>>

InitTranslate ==
    /\ st_pc = "start"
    /\ \E n \in 0..MaxDocs : \E lens \in [1..n -> 1..MaxWords] :
          st_input = DocsWith(lens)
    /\ st_max_seq_len \in 1..MaxSeqLen
    /\ st_docs = <<>>
    /\ st_idx_to_splitted = <<>>
    /\ st_t_docs = <<>>
    /\ st_unavailable = FALSE

IdleTranslate ==
    /\ st_pc = "start"
    /\ st_input = <<>>
    /\ st_max_seq_len = 1
    /\ st_docs = <<>>
    /\ st_idx_to_splitted = <<>>
    /\ st_t_docs = <<>>
    /\ st_unavailable = FALSE

\* translate_docs(docs): the batch translated, or ['<ukn>'] when the
\* translator raises AttributeError.
TranslateDocs(docs, available) ==
    IF available THEN [i \in 1..Len(docs) |-> Translation(docs[i])] ELSE <<Ukn>>

\* len(doc.strip().split(' '))
NumTokens(doc) == Len(doc)

RECURSIVE SplitDoc(_, _)
\* preprocessor.process([doc]): consecutive pieces of at most max words.
SplitDoc(doc, max) ==
    IF Len(doc) <= max THEN <<doc>>
    ELSE <<SubSeq(doc, 1, max)>> \o SplitDoc(SubSeq(doc, max + 1, Len(doc)), max)

\* list.pop(idx), list.insert(idx, x) with idx counted from 0
PopAt(l, idx) == SubSeq(l, 1, idx) \o SubSeq(l, idx + 2, Len(l))
InsertAt(l, idx, x) ==
    LET at == IF idx > Len(l) THEN Len(l) ELSE idx
    IN  SubSeq(l, 1, at) \o <<x>> \o SubSeq(l, at + 1, Len(l))

RECURSIVE Flatten(_)
\* ' '.join(pieces): the words of the pieces in order.
Flatten(pieces) == IF pieces = <<>> THEN <<>> ELSE Head(pieces) \o Flatten(Tail(pieces))

RECURSIVE ScanDocs(_, _, _, _)
\* for idx, doc in enumerate(docs): a long doc is popped from docs, the
\* list being iterated, and its pieces are kept under idx.  The iterator
\* goes on at position idx + 1 of the list as it now is.
ScanDocs(docs, idx, splitted, max) ==
    IF idx >= Len(docs) THEN [docs |-> docs, splitted |-> splitted]
    ELSE IF NumTokens(docs[idx + 1]) > max
    THEN ScanDocs(PopAt(docs, idx), idx + 1,
                  (idx :> SplitDoc(docs[idx + 1], max)) @@ splitted, max)
    ELSE ScanDocs(docs, idx + 1, splitted, max)

RECURSIVE InsertSplitted(_, _, _, _)
\* for idx, splitted_docs in idx_to_splitted_docs.items():
\*     t_docs.insert(idx, ' '.join(translate_docs(splitted_docs)))
\* in the order of insertion, which is the order of idx; the translator is
\* unavailable for the entries in `failing`.
InsertSplitted(t_docs, splitted, todo, failing) ==
    IF todo = {} THEN t_docs
    ELSE LET idx == CHOOSE i \in todo : \A j \in todo : i <= j
             t_answer == Flatten(TranslateDocs(splitted[idx], idx \notin failing))
         IN  InsertSplitted(InsertAt(t_docs, idx, t_answer), splitted,
                            todo \ {idx}, failing)

\* The whole function.
SplitAndTranslate ==
    /\ st_pc = "start"
    /\ LET scan == ScanDocs(st_input, 0, <<>>, st_max_seq_len)
       IN  \E batch_ok \in BOOLEAN, failing \in SUBSET DOMAIN scan.splitted :
             /\ st_docs' = scan.docs
             /\ st_idx_to_splitted' = scan.splitted
             /\ st_t_docs' = InsertSplitted(TranslateDocs(scan.docs, batch_ok),
                                            scan.splitted, DOMAIN scan.splitted,
                                            failing)
             /\ st_unavailable' = (~batch_ok \/ failing # {})
    /\ st_pc' = "done"
    /\ UNCHANGED <<st_input, st_max_seq_len>>
    /\ UNCHANGED othersTranslate

NextTranslate == SplitAndTranslate

(***************************************************************************)
(* dev/evaluation/main.py: run_experiment                                  *)
(***************************************************************************)
\* The pipelines run_experiment loads from the YAML file.
PipelineNames == {"query", "indexing"}

\* temp_dir before tempfile.TemporaryDirectory() has run.
NoTempDir == [state |-> "none", files |-> {}]

\* The document ids of an evaluation file with n documents.
EvalDocIds(n) == 1..n

InitExp ==
    /\ ex_pc = "temp_dir"
    /\ \E readable \in BOOLEAN, n \in 0..MaxEvalDocs :
          ex_eval_file = [readable |-> readable, docs |-> EvalDocIds(n)]
    /\ ex_yaml \in SUBSET PipelineNames
    /\ ex_temp_dir = NoTempDir
    /\ ex_eval_ds = {}
    /\ ex_file_paths = <<>>
    /\ ex_pipelines = {}
    /\ ex_runs = 0
    /\ ex_raised_at = "none"

IdleExp ==
    /\ ex_pc = "temp_dir"
    /\ ex_eval_file = [readable |-> TRUE, docs |-> {}]
    /\ ex_yaml = {}
    /\ ex_temp_dir = NoTempDir
    /\ ex_eval_ds = {}
    /\ ex_file_paths = <<>>
    /\ ex_pipelines = {}
    /\ ex_runs = 0
    /\ ex_raised_at = "none"

\* An exception leaves run_experiment at the call that raised it: the function
\* has no try/finally and no except, nothing after the call runs.
Raise(call) ==
    /\ ex_pc' = "raised"
    /\ ex_raised_at' = call

\* temp_dir = tempfile.TemporaryDirectory(); eval_ds = InMemoryDocumentStore()
CreateTempDir ==
    /\ ex_pc = "temp_dir"
    /\ ex_temp_dir' = [state |-> "exists", files |-> {}]
    /\ ex_pc' = "index_eval_labels"
    /\ UNCHANGED <<ex_eval_file, ex_yaml, ex_eval_ds, ex_file_paths, ex_pipelines,
                   ex_runs, ex_raised_at>>
    /\ UNCHANGED othersExp

\* index_eval_labels(eval_ds, eval_filename), returning normally
ExpIndexEvalLabels ==
    /\ ex_pc = "index_eval_labels"
    /\ ex_eval_file.readable
    /\ ex_eval_ds' = ex_eval_file.docs
    /\ ex_pc' = "get_eval_labels_and_paths"
    /\ UNCHANGED <<ex_eval_file, ex_yaml, ex_temp_dir, ex_file_paths, ex_pipelines,
                   ex_runs, ex_raised_at>>
    /\ UNCHANGED othersExp

\* index_eval_labels raises: add_eval_data cannot read the evaluation file
ExpIndexEvalLabelsRaises ==
    /\ ex_pc = "index_eval_labels"
    /\ ~ex_eval_file.readable
    /\ Raise("index_eval_labels")
    /\ UNCHANGED <<ex_eval_file, ex_yaml, ex_temp_dir, ex_eval_ds, ex_file_paths,
                   ex_pipelines, ex_runs>>
    /\ UNCHANGED othersExp

\* get_eval_labels_and_paths(eval_ds, temp_dir): one file per document of
\* eval_ds is written into the temporary directory
GetEvalLabelsAndPaths ==
    /\ ex_pc = "get_eval_labels_and_paths"
    /\ \E order \in ShuffledOrders(ListOf(Cardinality(ex_eval_ds))) :
          ex_file_paths' = order
    /\ ex_temp_dir' = [ex_temp_dir EXCEPT !.files = ex_eval_ds]
    /\ ex_pc' = "load_query"
    /\ UNCHANGED <<ex_eval_file, ex_yaml, ex_eval_ds, ex_pipelines, ex_runs,
                   ex_raised_at>>
    /\ UNCHANGED othersExp

\* get_eval_labels_and_paths raises at the write of some document's file; the
\* files written before it stay in the temporary directory
GetEvalLabelsAndPathsRaises ==
    /\ ex_pc = "get_eval_labels_and_paths"
    /\ \E written \in SUBSET ex_eval_ds :
          /\ written # ex_eval_ds
          /\ ex_temp_dir' = [ex_temp_dir EXCEPT !.files = written]
    /\ Raise("get_eval_labels_and_paths")
    /\ UNCHANGED <<ex_eval_file, ex_yaml, ex_eval_ds, ex_file_paths, ex_pipelines,
                   ex_runs>>
    /\ UNCHANGED othersExp

\* Pipeline.load_from_yaml(path, pipeline_name=name), returning normally
LoadFromYaml(name, next_pc) ==
    /\ name \in ex_yaml
    /\ ex_pipelines' = ex_pipelines \cup {name}
    /\ ex_pc' = next_pc
    /\ UNCHANGED <<ex_eval_file, ex_yaml, ex_temp_dir, ex_eval_ds, ex_file_paths,
                   ex_runs, ex_raised_at>>
    /\ UNCHANGED othersExp

\* Pipeline.load_from_yaml raises: the file defines no pipeline of that name
LoadFromYamlRaises(name) ==
    /\ name \notin ex_yaml
    /\ Raise("load_from_yaml")
    /\ UNCHANGED <<ex_eval_file, ex_yaml, ex_temp_dir, ex_eval_ds, ex_file_paths,
                   ex_pipelines, ex_runs>>
    /\ UNCHANGED othersExp

LoadQueryPipeline == ex_pc = "load_query" /\ LoadFromYaml("query", "load_indexing")
LoadQueryPipelineRaises == ex_pc = "load_query" /\ LoadFromYamlRaises("query")
LoadIndexPipeline == ex_pc = "load_indexing" /\ LoadFromYaml("indexing", "execute_eval_run")
LoadIndexPipelineRaises == ex_pc = "load_indexing" /\ LoadFromYamlRaises("indexing")

\* Pipeline.execute_eval_run(...), returning normally
ExecuteEvalRun ==
    /\ ex_pc = "execute_eval_run"
    /\ ex_runs' = ex_runs + 1
    /\ ex_pc' = "cleanup"
    /\ UNCHANGED <<ex_eval_file, ex_yaml, ex_temp_dir, ex_eval_ds, ex_file_paths,
                   ex_pipelines, ex_raised_at>>
    /\ UNCHANGED othersExp

\* Pipeline.execute_eval_run raises (the tracking server at localhost:5000 is
\* not reachable, a model cannot be loaded, a node fails)
ExecuteEvalRunRaises ==
    /\ ex_pc = "execute_eval_run"
    /\ Raise("execute_eval_run")
    /\ UNCHANGED <<ex_eval_file, ex_yaml, ex_temp_dir, ex_eval_ds, ex_file_paths,
                   ex_pipelines, ex_runs>>
    /\ UNCHANGED othersExp

\* temp_dir.cleanup(), the last statement; run_experiment returns
Cleanup ==
    /\ ex_pc = "cleanup"
    /\ ex_temp_dir' = [state |-> "cleaned", files |-> {}]
    /\ ex_pc' = "returned"
    /\ UNCHANGED <<ex_eval_file, ex_yaml, ex_eval_ds, ex_file_paths, ex_pipelines,
                   ex_runs, ex_raised_at>>
    /\ UNCHANGED othersExp

NextExp ==
    \/ CreateTempDir
    \/ ExpIndexEvalLabels
    \/ ExpIndexEvalLabelsRaises
    \/ GetEvalLabelsAndPaths
    \/ GetEvalLabelsAndPathsRaises
    \/ LoadQueryPipeline
    \/ LoadQueryPipelineRaises
    \/ LoadIndexPipeline
    \/ LoadIndexPipelineRaises
    \/ ExecuteEvalRun
    \/ ExecuteEvalRunRaises
    \/ Cleanup

(***************************************************************************)
(* Specifications                                                          *)
(***************************************************************************)
vars == <<varsUpload, varsQuery, varsCli, varsSquad, varsDpr, varsPost, varsJoin,
          varsEval, varsTranslate, varsExp>>

\* The initial condition of the program `c`, the others idle.
InitFor(c) ==
    /\ IF c = "upload" THEN InitUpload ELSE IdleUpload
    /\ InitQuery
    /\ IF c = "cli" THEN InitCli ELSE IdleCli
    /\ IF c = "squad" THEN InitSquad ELSE IdleSquad
    /\ IF c = "dpr" THEN InitDpr ELSE IdleDpr
    /\ IF c = "post" THEN InitPost ELSE IdlePost
    /\ IF c = "join" THEN InitJoin ELSE IdleJoin
    /\ IF c = "eval" THEN InitEval ELSE IdleEval
    /\ IF c = "translate" THEN InitTranslate ELSE IdleTranslate
    /\ IF c = "experiment" THEN InitExp ELSE IdleExp

SpecUpload == InitFor("upload") /\ [][NextUpload]_vars
SpecUploadSeq == InitFor("upload") /\ [][NextUploadSeq]_vars
SpecQuery == InitFor("query") /\ [][NextQuery]_vars
SpecCli == InitFor("cli") /\ [][NextCli]_vars
SpecSquad == InitFor("squad") /\ [][NextSquad]_vars
SpecDpr == InitFor("dpr") /\ [][NextDpr]_vars
SpecPost == InitFor("post") /\ [][NextPost]_vars
SpecJoin == InitFor("join") /\ [][NextJoin]_vars
SpecEval == InitFor("eval") /\ [][NextEval]_vars
SpecTranslate == InitFor("translate") /\ [][NextTranslate]_vars
SpecExp == InitFor("experiment") /\ [][NextExp]_vars

\* Any one of the programs.
Init == \E c \in {"upload", "cli", "squad", "dpr", "post", "join", "eval", "translate",
                  "experiment"} :
            InitFor(c)
Next ==
    \/ NextUpload \/ NextQuery \/ NextCli \/ NextSquad \/ NextDpr \/ NextPost
    \/ NextJoin \/ NextEval \/ NextTranslate \/ NextExp
Spec == Init /\ [][Next]_vars

(***************************************************************************)
(* Claims                                                                  *)
(***************************************************************************)

\* C1: once the handler of a /file-upload request with keep_files false has
\* finished, by returning or by indexing_pipeline.run raising, none of the
\* files the request wrote is left in the upload directory.
C1_NoUploadedFileLeft ==
    \A r \in Req :
        (Finished(r) /\ ~keep_files[r]) => Range(file_paths[r]) \cap upload_dir = {}

\* C1: a request with keep_files false whose indexing raised has finished.
C1_FailedRequest == \E r \in Req : pc[r] = "failed" /\ ~keep_files[r]

\* C2: in any sequence of uploads, the indexing of an upload with
\* recreate_index true leaves exactly the documents of its batch in the
\* store, and the indexing of an upload with recreate_index false leaves
\* what the store held before together with its batch.
C2_RecreateOnlyWhenAsked ==
    [][\A r \in Req :
          (pc[r] = "index" /\ pc'[r] = "cleanup") =>
              store' = IF recreate_index[r] THEN DocsOf(file_paths[r])
                       ELSE store \cup DocsOf(file_paths[r])]_vars

\* C2: an upload with recreate_index false has been indexed after an upload
\* with recreate_index true had finished.
C2_PlainAfterRecreate ==
    \E r, q \in Req :
        /\ q < r
        /\ recreate_index[q] /\ pc[q] = "done"
        /\ ~recreate_index[r] /\ pc[r] = "done"

\* C3: the mapping a query handler returns holds "answers" and "documents";
\* a key the pipeline omitted holds the empty list, a key the pipeline
\* supplied holds the pipeline's value.
C3_BothKeysPresent ==
    q_pc = "returned" =>
        \A k \in {"answers", "documents"} :
            /\ k \in DOMAIN q_result
            /\ q_result[k] = IF k \in DOMAIN q_pipeline_result
                             THEN q_pipeline_result[k] ELSE <<>>

\* C3: /rag-query returned after a pipeline run that omitted "answers" and
\* supplied a non-empty "documents".
C3_Backfilled ==
    /\ q_pc = "returned"
    /\ q_endpoint = "rag-query"
    /\ "answers" \notin DOMAIN q_pipeline_result
    /\ "documents" \in DOMAIN q_pipeline_result
    /\ q_pipeline_result["documents"] # <<>>
    /\ q_result["answers"] = <<>>

\* C4: main() runs at most one of launch() and ingest_data(); on a line of
\* the two flags alone: with no flag neither runs, the help is printed and
\* the exit is normal; with --launch, alone or with --ingest_data, only
\* launch() runs; with --ingest_data alone only ingest_data() runs.
C4_AtMostOneAction ==
    /\ launch_calls + ingest_calls <= 1
    /\ (cli_pc = "exit" /\ Range(cli_argv) \subseteq KnownFlags) =>
          /\ exit_code = 0
          /\ Range(cli_argv) = {} =>
                launch_calls = 0 /\ ingest_calls = 0 /\ help_printed
          /\ "--launch" \in Range(cli_argv) =>
                launch_calls = 1 /\ ingest_calls = 0 /\ ~help_printed
          /\ Range(cli_argv) = {"--ingest_data"} =>
                launch_calls = 0 /\ ingest_calls = 1 /\ ~help_printed

\* C4: the process has exited after a line with both flags.
C4_BothFlagsGiven ==
    /\ cli_pc = "exit"
    /\ Range(cli_argv) = KnownFlags
    /\ launch_calls = 1

\* The qas counts of the non-empty prefixes of a list of articles.
CumulativeSums(data) == {CountQas(SubSeq(data, 1, k)) : k \in 1..Len(data)}

IsPrefix(a, b) == Len(a) <= Len(b) /\ a = SubSeq(b, 1, Len(a))

\* C5: the dev set is a prefix of the shuffled articles and its qas count is
\* the smallest cumulative per-article sum that is >= round(r * N).
C5_DevReachesThreshold ==
    (sq_pc = "done" /\ sq_shuffled # <<>>) =>
        LET th == Threshold(CountQas(sq_data), sq_ratio)
            reaching == {c \in CumulativeSums(sq_shuffled) : c >= th}
        IN  /\ IsPrefix(sq_dev_set, sq_shuffled)
            /\ reaching # {}
            /\ CountQas(sq_dev_set) \in reaching
            /\ \A c \in reaching : CountQas(sq_dev_set) <= c

\* C5: a split has been written whose threshold is positive.
C5_SplitWritten ==
    sq_pc = "done" /\ Threshold(CountQas(sq_data), sq_ratio) > 0

\* C6: on an input of n >= 1 records that each have a positive context the
\* function returns n pairs, the i-th with the question of record i and the
\* text of its last positive context.
C6_OnePairPerRecord ==
    (/\ dpr_pc # "start"
     /\ dpr_data # <<>>
     /\ \A i \in 1..Len(dpr_data) : dpr_data[i].positive_ctxs # <<>>) =>
        /\ dpr_pc = "done"
        /\ Len(dpr_pairs) = Len(dpr_data)
        /\ \A i \in 1..Len(dpr_data) :
              dpr_pairs[i] =
                  [question |-> dpr_data[i].question,
                   document |-> dpr_data[i].positive_ctxs[Len(dpr_data[i].positive_ctxs)]]

\* C6: the function has returned on an input of two records.
C6_TwoRecords == dpr_pc = "done" /\ Len(dpr_data) = 2

\* The trimmed sentence ends in one of . ; !
EndsInTerminal(sentence) ==
    LET t == Strip(sentence)
    IN  t # <<>> /\ t[Len(t)] \in {".", ";", "!"}

\* C7: the answers keep their number and order, and the text of each is the
\* single-space join of those sentences of its original text whose trimmed
\* form ends in one of . ; ! (the empty text when there is none).
C7_KeepsTerminatedSentences ==
    pp_pc = "done" =>
        /\ Len(pp_answers) = Len(pp_input)
        /\ \A i \in 1..Len(pp_input) :
              /\ pp_answers[i].id = pp_input[i].id
              /\ pp_answers[i].answer =
                    JoinSpace(SelectSeq(SentTokenize(pp_input[i].answer), EndsInTerminal))

\* C7: an answer with a sentence that runs over a line break and ends in
\* a full stop has been processed.
C7_SentenceOverLines ==
    /\ pp_pc = "done"
    /\ \E i \in 1..Len(pp_input) :
          \E k \in 1..Len(SentTokenize(pp_input[i].answer)) :
              LET t == Strip(SentTokenize(pp_input[i].answer)[k])
              IN  NL \in Range(t) /\ t[Len(t)] = "."

\* The positions of the tokens of seq that are not in characters.
WordPositions(seq, characters) ==
    {i \in 1..Len(seq) : ~InCharacters(seq[i], characters)}

\* The j-th of a set of positions, and the position before the next one.
NthPosition(positions, j) ==
    CHOOSE i \in positions : Cardinality({w \in positions : w <= i}) = j
GroupEnd(positions, j, len) ==
    IF j = Cardinality(positions) THEN len ELSE NthPosition(positions, j + 1) - 1

\* out is seq with every token that does not stand at one of the positions
\* `starts` appended to the token before it: the outputs concatenate to what
\* the inputs concatenate to, there is one output per start, and output j is
\* the j-th start followed by the tokens up to the next start.
MergedAt(seq, starts, out) ==
    /\ Flatten(out) = Flatten(seq)
    /\ Len(out) = Cardinality(starts)
    /\ \A j \in 1..Len(out) :
          out[j] = Flatten(SubSeq(seq, NthPosition(starts, j),
                                  GroupEnd(starts, j, Len(seq))))

\* C8 as stated: for every token sequence and punctuation set the generator
\* yields the tokens with each punctuation token appended to the token
\* before it: no output token is a punctuation token, the outputs
\* concatenate to what the inputs concatenate to, and there are as many
\* outputs as there are non-punctuation inputs.
C8_EveryInputMerged ==
    jp_pc # "start" =>
        /\ jp_pc = "done"
        /\ MergedAt(jp_seq, WordPositions(jp_seq, jp_characters), jp_out)
        /\ \A j \in 1..Len(jp_out) : ~InCharacters(jp_out[j], jp_characters)

\* C8 as amended: on an empty sequence the generator raises; on any other
\* the first token, punctuation or not, opens the first output and every
\* later punctuation token is appended to the token before it, so that there
\* is one output for the first token and one for every later
\* non-punctuation token; when the first token is not punctuation this is
\* the statement above.
C8_MergedAfterFirstToken ==
    jp_pc # "start" =>
        IF jp_seq = <<>> THEN jp_pc = "raised" /\ jp_out = <<>>
        ELSE /\ jp_pc = "done"
             /\ MergedAt(jp_seq, {1} \cup WordPositions(jp_seq, jp_characters), jp_out)
             /\ ~InCharacters(jp_seq[1], jp_characters) =>
                   \A j \in 1..Len(jp_out) : ~InCharacters(jp_out[j], jp_characters)

\* C8: two words, each followed by a punctuation token, have been joined.
C8_TwoWordsJoined ==
    /\ jp_pc = "done"
    /\ Len(jp_seq) = 4
    /\ WordPositions(jp_seq, jp_characters) = {1, 3}
    /\ Len(jp_out) = 2

\* C9: with a top_k_list the returned mapping has one report under each
\* element of the list, and every report was computed for that depth on
\* "eval_docs" and "label_index" as index_eval_labels loaded them, once,
\* before the first evaluation: the indices the reports saw are the ones the
\* store still holds, loaded one time.
C9_OneReportPerDepth ==
    (ev_pc = "returned" /\ ~ev_top_k_list.is_none) =>
        /\ DOMAIN ev_reports = Range(ev_top_k_list.list)
        /\ \A k \in DOMAIN ev_reports :
              /\ ev_reports[k].top_k = k
              /\ ev_reports[k].doc_index = "eval_docs"
              /\ ev_reports[k].label_index = "label_index"
              /\ ev_reports[k].docs = ev_indices["eval_docs"]
              /\ ev_reports[k].labels = ev_indices["label_index"]
              /\ ev_reports[k].docs.content = "eval"
              /\ ev_reports[k].docs.loads = 1
              /\ ev_reports[k].labels.content = "eval"
              /\ ev_reports[k].labels.loads = 1

\* C9: a dense retriever has been evaluated at two depths on a store that
\* held older evaluation indices.
C9_TwoDepthsEvaluated ==
    /\ ev_pc = "returned"
    /\ ev_retriever = "EmbeddingRetriever"
    /\ Cardinality(DOMAIN ev_reports) = 2
    /\ ev_indices["eval_docs"].embedded

\* C10: unless the translator was unavailable, the returned list is as long
\* as docs was, position i holds the translation of the original docs[i],
\* and every document of more than max_seq_len tokens was split.
C10_TranslatedInPlace ==
    (st_pc = "done" /\ ~st_unavailable) =>
        /\ Len(st_t_docs) = Len(st_input)
        /\ \A i \in 1..Len(st_input) :
              /\ st_t_docs[i] = Translation(st_input[i])
              /\ NumTokens(st_input[i]) > st_max_seq_len =>
                    (i - 1) \in DOMAIN st_idx_to_splitted

\* C10: a list with two long documents has been translated.
C10_TwoLongDocs ==
    /\ st_pc = "done"
    /\ ~st_unavailable
    /\ Cardinality({i \in 1..Len(st_input) :
                       NumTokens(st_input[i]) > st_max_seq_len}) = 2

\* A request that has set the store's recreate flag (line 62) and whose handler
\* has not returned yet.
HasMarked(q) == recreate_index[q] /\ pc[q] \in {"index", "cleanup"}

\* The request r stands at indexing_pipeline.run (line 63) without having
\* asked for a recreation, while the flag set by a concurrent handler is true.
RacedAtIndexing(r) ==
    /\ pc[r] = "index"
    /\ ~recreate_index[r]
    /\ ds_recreate_index
    /\ \E q \in Req : q # r /\ HasMarked(q)

\* C11: the recreate flag is shared by concurrent upload handlers without
\* synchronisation: when a request with recreate_index=false runs
\* indexing_pipeline.run while the flag set by a concurrent request with
\* recreate_index=true is true, its indexing drops the pre-existing index
\* content: after the run the store holds the documents of its own files only
\* and none of the documents it held before.
C11_RacedIndexingDropsIndex ==
    [][\A r \in Req :
          (RacedAtIndexing(r) /\ pc'[r] = "cleanup")
              => /\ store' = DocsOf(file_paths[r])
                 /\ store' \cap store = {}]_vars

\* C11 witness: the interleaving exists: two uploads are in flight, the one
\* with recreate_index=true has set the flag and is still before its own
\* indexing, the one with recreate_index=false stands at indexing_pipeline.run
\* with the flag true and the index still holding its pre-existing documents.
C11_PlainUploadRaced ==
    \E r \in Req :
        /\ RacedAtIndexing(r)
        /\ \E q \in Req : q # r /\ recreate_index[q] /\ pc[q] = "index"
        /\ store = SeedDocs

\* run_experiment has been left, by its return or by an exception.
ExperimentLeft == ex_pc \in {"returned", "raised"}

\* C12: run_experiment cleans up its temporary directory on every path by
\* which it ends: whether index_eval_labels, get_eval_labels_and_paths, the
\* pipeline loading and Pipeline.execute_eval_run return or raise,
\* temp_dir.cleanup() has been called when run_experiment is left.
C12_CleanedOnEveryPath == ExperimentLeft => ex_temp_dir.state = "cleaned"

\* C12 case: Pipeline.execute_eval_run has raised after the files of the
\* evaluation documents were written into the temporary directory.
C12_EvalRunRaised ==
    /\ ex_pc = "raised"
    /\ ex_raised_at = "execute_eval_run"
    /\ ex_temp_dir.files # {}

====
